---------------------------- MODULE Spec2Model ----------------------------
(***************************************************************************)
(* MiTradingBot: the Deriv websocket client (src/deriv_websocket.py,       *)
(* class DerivAPI) and the live trading session (src/live_trader.py,       *)
(* LiveTrader.run and its tick_callback).                                  *)
(*                                                                         *)
(* Two asyncio tasks share DerivAPI._recv_queue: the background reader     *)
(* (_read_loop, sole producer) and the session loop (consumer: the event   *)
(* generator and the two polling loops of buy_contract).  asyncio is       *)
(* cooperative, so each action below runs from one suspension point to the *)
(* next; a get() followed by a put() on the unbounded queue never          *)
(* suspends in between, hence pop-and-requeue is one step.                 *)
(*                                                                         *)
(* Money is fixed point: balances and P&L amounts are counted in units of  *)
(* 1/20 cent (UnitsPerCent), stakes in cents, so that stake * 0.95 is      *)
(* exact.  Volatility is counted in hundredths.  Times are seconds.        *)
(***************************************************************************)
EXTENDS Integers, Sequences, FiniteSets, TLC

(***************************************************************************)
(* Bounds of the model (not program constants).                            *)
(***************************************************************************)
MaxFrames == 5         \* frames the reader receives in one run, any schedule
TradeFrames == 8       \* the same, when the session keeps up with the venue
ClientCalls == 5       \* calls a client makes on a DerivAPI it drives itself
ClientFrames == 2      \* frames the reader receives for such a client

(***************************************************************************)
(* Program constants.                                                      *)
(***************************************************************************)
MaxAttempts == 10      \* for _ in range(10), both phases of buy_contract
Cooldown == 25         \* time_since_last > 25
ExitThreshold == 20    \* time_in_trade > 20
RsiLow == 30           \* rsi < 30  -> CALL
RsiHigh == 70          \* rsi > 70  -> PUT
MinStakeCents == 1000  \* min_stake = 10
UnitsPerCent == 20     \* fixed point: 1 cent = 20 units
WinUnitsPerCent == 19  \* stake * 0.95, in units per cent of stake
SignalStrength == 3    \* calculate_stake(signals['volatility'], 3)
NoTime == 0 - 1        \* entry_time = None

InitialBalance == 10000 * 100 * UnitsPerCent   \* initial_balance=10000
DurationSeconds == 2 * 60                      \* duration_minutes of run()

(***************************************************************************)
(* Inputs drawn from small sets.                                           *)
(***************************************************************************)
Prices == {1, 2}                 \* tick["quote"]
ClockSteps == {20, 26}           \* seconds between two ticks of the venue
RsiValues == {29, 30, 70, 71}    \* signals['rsi'] (opaque SignalProvider)
VolValues == {40}                \* signals['volatility'], in hundredths
\* send_message: sent, TelegramError (caught, logged), any other exception
NotifyOutcomes == {"ok", "telegram_error", "raise"}
\* _save_trade: the row is appended, or open()/writerow() raises
SaveOutcomes == {"written", "io_error"}

VARIABLES
    \* DerivAPI
    websocket,        \* "none" | "open"
    authorized,       \* BOOLEAN
    queue_made,       \* _recv_queue is not None
    events,           \* events is not None (the generator of authorize)
    recv_queue,       \* the frames in _recv_queue, head first
    reader_task,      \* "none" | "running" | "cancelled" | "done"
    \* the venue and the transport
    transport_ok,     \* FALSE once a receive has failed
    requests,         \* requests the venue has not answered yet
    junk_seen,        \* an undecodable message has been received
    now,              \* datetime.now(), seconds
    \* LiveTrader
    notifier,         \* self.notifier is not None
    balance, position, entry_price, entry_time, contract_id, current_stake,
    total_trades, winning_trades, losing_trades, consecutive_losses,
    start_time, last_action_time,
    \* the session loop: where it is suspended, and the locals of the
    \* tick_callback / buy_contract activation in progress
    pc,               \* "start" | "connected" | "authorized" | "feed" | "p1"
                      \* | "send_buy" | "p2" | "notify_opened" | "notify_closed"
                      \* | "finally" | "ended"
    tick,             \* the tick frame tick_callback is processing
    rsi,              \* rsi = signals['rsi'], read when flat after the cooldown
    entry_volatility, \* signals['volatility'] of the entry, in hundredths
    order,            \* [n, contract_type, stake] of the buy call in progress
    attempts,         \* iterations done in the current polling loop
    proposal,         \* the frame phase 1 matched
    orders_sent,      \* buy_contract calls so far
    \* history (written, never read by the program)
    pushed,           \* frames the reader has put on the queue
    settlements,      \* the profit_amount of every settlement, in order
    settled_ids,      \* contract ids settled so far
    settled_at,       \* datetime.now() at the last settlement, or NoTime
    ledger,           \* the rows written to trade_history.csv by this trader
    concurrent_recvs, \* recv() calls made while the reader was in recv()
    opened,           \* buy calls that returned a contract
    summaries,        \* final summaries printed
    \* a client that drives a DerivAPI itself (as test_connection does)
    api,              \* where its call is suspended: "idle" | "close_join"
                      \* | "close_transport"
    calls,            \* calls of connect / authorize / close it has made
    returned,         \* its last return, and the operation before it
    transports,       \* transports opened by connect() so far
    consumer          \* the task iterating events: "idle" | "waiting"
                      \* | "woken" | "orphaned" | "failed"

dvars == <<websocket, authorized, queue_made, events, recv_queue, reader_task>>
vvars == <<transport_ok, requests, junk_seen, now>>
avars == <<balance, total_trades, winning_trades, losing_trades, consecutive_losses>>
pvars == <<position, entry_price, entry_time, contract_id, current_stake>>
tvars == <<notifier, start_time, last_action_time>>
lvars == <<pc, tick, rsi, entry_volatility, order, attempts, proposal, orders_sent>>
hvars == <<pushed, settlements, settled_ids, settled_at, ledger, concurrent_recvs,
          opened, summaries>>
cvars == <<api, calls, returned, transports, consumer>>
vars == <<dvars, vvars, avars, pvars, tvars, lvars, hvars, cvars>>

(***************************************************************************)
(* Frames: a decoded JSON object, reduced to its top-level marker keys and *)
(* the fields the program reads.  id is the arrival number; req is the     *)
(* number of the buy_contract call whose request the frame answers.        *)
(***************************************************************************)
Frame(i, ks, p, e, r) == [id |-> i, keys |-> ks, price |-> p, epoch |-> e, req |-> r]
NoFrame == Frame(0, {}, 0, 0, 0)
NoOrder == [n |-> 0, contract_type |-> "None", stake |-> 0]
NoReturn == [op |-> "none", ok |-> FALSE, n |-> 0, prev |-> "none"]

Has(key, data) == key \in data.keys

\* The replies the venue gives to a request of the given kind: the reply
\* proper ({"proposal": ...} or {"buy": ...}) or an error reply ({"error": ...}).
ReplyShapes(kind) == {{kind}, {"error"}}

Account == [balance |-> balance, total_trades |-> total_trades,
            winning_trades |-> winning_trades, losing_trades |-> losing_trades,
            consecutive_losses |-> consecutive_losses]


(***************************************************************************)
(* LiveTrader.calculate_stake.  The stake before clamping is               *)
(*   balance * risk_percent/100 * volatility_factor * signal_factor        *)
(*           * loss_factor                                                 *)
(* with risk_percent = 1.0.  The factors are kept as numerators over the   *)
(* denominators 20, 10 and 10; with the balance in units the stake in      *)
(* cents is balance * vf * sf * lf / StakeDen.  It is carried as a whole   *)
(* number of cents plus a fraction frac / StakeDen (0 <= frac < StakeDen), *)
(* computed in two divisions so that no product leaves 32 bits.            *)
(***************************************************************************)
StakeDen == UnitsPerCent * 100 * 20 * 10 * 10

VolatilityFactor(volatility) ==
    IF volatility > 50 THEN 14          \* 0.7
    ELSE IF volatility > 30 THEN 17     \* 0.85
    ELSE 20                             \* 1.0

SignalFactor(signal_strength) ==
    IF signal_strength >= 3 THEN 13     \* 1.3
    ELSE 10                             \* 1.0

LossFactor(losses) ==
    IF losses >= 3 THEN 5               \* 0.5
    ELSE IF losses >= 2 THEN 7          \* 0.7
    ELSE 10                             \* 1.0

\* Rationals as [whole, frac] meaning whole + frac/StakeDen, 0 <= frac < StakeDen.
Mixed(w, f) == [whole |-> w, frac |-> f]
MixedLeq(a, b) == a.whole < b.whole \/ (a.whole = b.whole /\ a.frac <= b.frac)
MixedMin(a, b) == IF MixedLeq(a, b) THEN a ELSE b
MixedMax(a, b) == IF MixedLeq(a, b) THEN b ELSE a

\* round(x, 2): to the nearest cent, ties to the even cent.
RoundCents(a) ==
    IF 2 * a.frac > StakeDen THEN a.whole + 1
    ELSE IF 2 * a.frac < StakeDen THEN a.whole
    ELSE IF a.whole % 2 = 0 THEN a.whole ELSE a.whole + 1

\* base_stake * volatility_factor * signal_factor * loss_factor, in cents.
RawStake(bal, volatility, signal_strength, losses) ==
    LET n1 == bal * VolatilityFactor(volatility)
        q1 == n1 \div StakeDen
        r1 == n1 % StakeDen
        k2 == SignalFactor(signal_strength) * LossFactor(losses)
        n2 == r1 * k2
    IN  Mixed(q1 * k2 + (n2 \div StakeDen), n2 % StakeDen)

\* max_stake = balance * 0.05, in cents: balance / (20 * UnitsPerCent).
MaxStake(bal) ==
    LET d == 20 * UnitsPerCent
    IN  Mixed(bal \div d, (bal % d) * (StakeDen \div d))

MinStake == Mixed(MinStakeCents, 0)

\* stake = max(min_stake, min(stake, max_stake)); return round(stake, 2)
calculate_stake(bal, losses, volatility, signal_strength) ==
    RoundCents(MixedMax(MinStake,
                        MixedMin(RawStake(bal, volatility, signal_strength, losses),
                                 MaxStake(bal))))

(***************************************************************************)
(* Settlement arithmetic of tick_callback (live_trader.py 272-294).        *)
(***************************************************************************)
\* pnl = price_change for a CALL, -price_change otherwise
DirectionalPnl(pos, entry, current_price) ==
    IF pos = "CALL" THEN current_price - entry ELSE 0 - (current_price - entry)

\* An unchanged price counted as a win (>= in place of >).
ProfitPercentNotNegative(pnl, entry) ==
    (pnl >= 0 /\ entry > 0) \/ (pnl <= 0 /\ entry < 0)

\* profit_percent = (pnl / entry_price) * 100 > 0
ProfitPercentPositive(pnl, entry) ==
    (pnl > 0 /\ entry > 0) \/ (pnl < 0 /\ entry < 0)

\* profit_amount = current_stake * 0.95 if profit_percent > 0 else -current_stake
ProfitAmount(stake, pnl, entry) ==
    IF ProfitPercentPositive(pnl, entry) THEN stake * WinUnitsPerCent
    ELSE 0 - stake * UnitsPerCent

\* A loss that is not taken from the balance.
BalanceAfterWinsOnly(bal, profit_amount) ==
    IF profit_amount > 0 THEN bal + profit_amount ELSE bal

\* self.balance += profit_amount
BalanceAfter(bal, profit_amount) == bal + profit_amount

\* A win that does not reset the count.
LossesAfterNoReset(losses, profit_amount) ==
    IF profit_amount > 0 THEN losses ELSE losses + 1

\* if profit_amount > 0: ... consecutive_losses = 0  else: ... += 1
LossesAfter(losses, profit_amount) ==
    IF profit_amount > 0 THEN 0 ELSE losses + 1

\* elapsed_minutes >= duration_minutes -> return True (stop), else False
AfterTick == IF now - start_time >= DurationSeconds THEN "finally" ELSE "feed"


(***************************************************************************)
(* Initial state: LiveTrader.__init__ and DerivAPI.__init__, then          *)
(* connect_telegram, which leaves a notifier or None.                      *)
(***************************************************************************)
Init ==
    /\ websocket = "none" /\ authorized = FALSE /\ queue_made = FALSE
    /\ events = FALSE /\ recv_queue = <<>> /\ reader_task = "none"
    /\ transport_ok = TRUE /\ requests = {} /\ junk_seen = FALSE
    /\ now = 0
    /\ notifier \in BOOLEAN
    /\ balance = InitialBalance /\ position = "None" /\ entry_price = 0
    /\ entry_time = NoTime /\ contract_id = 0 /\ current_stake = 0
    /\ total_trades = 0 /\ winning_trades = 0 /\ losing_trades = 0
    /\ consecutive_losses = 0
    /\ start_time = 0 /\ last_action_time = 0
    /\ pc = "start" /\ tick = NoFrame /\ rsi = 0 /\ entry_volatility = 0
    /\ order = NoOrder /\ attempts = 0
    /\ proposal = NoFrame /\ orders_sent = 0
    /\ pushed = 0
    /\ settlements = <<>> /\ settled_ids = {} /\ settled_at = NoTime
    /\ ledger = <<>> /\ concurrent_recvs = 0 /\ opened = 0
    /\ summaries = 0
    /\ api = "idle" /\ calls = 0 /\ returned = NoReturn /\ transports = 0
    /\ consumer = "idle"

(***************************************************************************)
(* The background reader, DerivAPI._read_loop: one iteration receives one  *)
(* message and puts the decoded frame on the queue.                        *)
(***************************************************************************)
ReaderReady ==
    reader_task = "running" /\ websocket = "open" /\ transport_ok /\ queue_made

\* The schedules explored: how many frames arrive in a run and how many may
\* wait in the queue at one time.
AnySchedule == [frames |-> MaxFrames, queue |-> MaxFrames, steps |-> {26}]
CalmSchedule == [frames |-> TradeFrames, queue |-> 1, steps |-> ClockSteps]

\* await self._recv_queue.put(data)
Push(lim, data) ==
    /\ pushed < lim.frames
    /\ Len(recv_queue) < lim.queue
    /\ recv_queue' = Append(recv_queue, data)
    /\ pushed' = pushed + 1

NextId == pushed + 1

\* The venue sends the next tick of the subscription.
ReaderTick(lim) ==
    /\ ReaderReady
    /\ pc \notin {"start", "connected", "authorized"}
    /\ \E dt \in lim.steps, p \in Prices :
          /\ now' = now + dt
          /\ Push(lim, Frame(NextId, {"tick"}, p, now + dt, 0))
    /\ UNCHANGED <<websocket, authorized, queue_made, events, reader_task, transport_ok,
                   requests, junk_seen, avars, pvars, tvars, lvars, settlements,
                   settled_ids, settled_at, ledger, concurrent_recvs, opened, summaries>>
    /\ UNCHANGED cvars

\* The venue answers one of the outstanding requests; a proposal is priced
\* for the amount of its request.
ReaderReply(lim) ==
    /\ ReaderReady
    /\ \E r \in requests : \E ks \in ReplyShapes(r.kind) :
          /\ Push(lim, Frame(NextId, ks, r.amount, 0, r.n))
          /\ requests' = requests \ {r}
    /\ UNCHANGED <<websocket, authorized, queue_made, events, reader_task, transport_ok,
                   junk_seen, now, avars, pvars, tvars, lvars, settlements,
                   settled_ids, settled_at, ledger, concurrent_recvs, opened, summaries>>
    /\ UNCHANGED cvars

\* A reader that drops a message it cannot decode.
ReaderDecodeFailDiscards(lim) ==
    /\ ReaderReady
    /\ ~ junk_seen
    /\ junk_seen' = TRUE
    /\ UNCHANGED <<websocket, authorized, queue_made, events, recv_queue,
                   reader_task, transport_ok, requests, now, avars, pvars, tvars,
                   lvars, hvars>>
    /\ UNCHANGED cvars

\* json.loads(raw) fails: data = {"raw": raw}.  At most once in a run.
ReaderDecodeFail(lim) ==
    /\ ReaderReady
    /\ ~ junk_seen
    /\ Push(lim, Frame(NextId, {"raw"}, 0, 0, 0))
    /\ junk_seen' = TRUE
    /\ UNCHANGED <<websocket, authorized, queue_made, events, reader_task, transport_ok,
                   requests, now, avars, pvars, tvars, lvars, settlements,
                   settled_ids, settled_at, ledger, concurrent_recvs, opened, summaries>>
    /\ UNCHANGED cvars

\* A reader that ends on a failed receive without a word to the queue.
ReaderTransportFailSilent(lim) ==
    /\ ReaderReady
    /\ transport_ok' = FALSE
    /\ reader_task' = "done"
    /\ UNCHANGED <<websocket, authorized, queue_made, events, recv_queue, requests,
                   junk_seen, now, avars, pvars, tvars, lvars, hvars>>
    /\ UNCHANGED cvars

\* recv() raises: put {"error": str(e)} and leave the loop.
ReaderTransportFail(lim) ==
    /\ ReaderReady
    /\ Push(lim, Frame(NextId, {"error"}, 0, 0, 0))
    /\ transport_ok' = FALSE
    /\ reader_task' = "done"
    /\ UNCHANGED <<websocket, authorized, queue_made, events, requests, junk_seen, now,
                   avars, pvars, tvars, lvars, settlements, settled_ids, settled_at, ledger, concurrent_recvs, opened,
                   summaries>>
    /\ UNCHANGED cvars

(***************************************************************************)
(* DerivAPI.close and the start of LiveTrader.run.                         *)
(***************************************************************************)
\* close(): cancel and await the reader, close the transport, reset the fields.
Closed ==
    /\ websocket' = "none" /\ queue_made' = FALSE /\ recv_queue' = <<>>
    /\ events' = FALSE /\ reader_task' = "none" /\ authorized' = FALSE

\* connected = await self.connection.connect(); if not connected: return
Connect ==
    /\ pc = "start"
    /\ \/ /\ websocket' = "open"
          /\ transports' = transports + 1
          /\ pc' = "connected"
       \/ /\ websocket' = "none"
          /\ pc' = "ended"
          /\ UNCHANGED transports
    /\ UNCHANGED <<api, calls, returned, consumer>>
    /\ UNCHANGED <<authorized, queue_made, events, recv_queue, reader_task, vvars, avars,
                   pvars, tvars, tick, rsi, entry_volatility, order, attempts, proposal, orders_sent,
                   hvars>>

\* authorized = await self.connection.authorize(); if not: close(); return
Authorize ==
    /\ pc = "connected"
    /\ websocket # "none"
    /\ \/ /\ authorized' = TRUE
          /\ queue_made' = TRUE
          /\ events' = TRUE
          /\ reader_task' = "running"
          /\ pc' = "authorized"
          /\ UNCHANGED <<websocket, recv_queue>>
       \/ /\ Closed
          /\ pc' = "ended"
    /\ UNCHANGED <<vvars, avars, pvars, tvars, tick, rsi, entry_volatility, order, attempts, proposal,
                   orders_sent, hvars>>
    /\ UNCHANGED cvars

\* ok = await self.connection.subscribe({"ticks": symbol}); the send raises
\* on a failed transport: close(); return, and the finally block follows.
Subscribe ==
    /\ pc = "authorized"
    /\ IF transport_ok
       THEN /\ start_time' = now
            /\ last_action_time' = now
            /\ pc' = "feed"
            /\ UNCHANGED dvars
       ELSE /\ Closed
            /\ pc' = "finally"
            /\ UNCHANGED <<start_time, last_action_time>>
    /\ UNCHANGED <<vvars, avars, pvars, notifier, tick, rsi, entry_volatility, order, attempts, proposal,
                   orders_sent, hvars>>
    /\ UNCHANGED cvars

\* finally: await self.connection.close(); print the final summary.
Finalize ==
    /\ pc = "finally"
    /\ Closed
    /\ summaries' = summaries + 1
    /\ pc' = "ended"
    /\ UNCHANGED <<vvars, avars, pvars, tvars, tick, rsi, entry_volatility, order, attempts, proposal,
                   orders_sent, pushed, settlements, settled_ids, settled_at, ledger, concurrent_recvs, opened>>
    /\ UNCHANGED cvars

(***************************************************************************)
(* LiveTrader.run: one pull of the event generator and the tick_callback   *)
(* it feeds, up to the callback's first suspension.                        *)
(***************************************************************************)
\* A frame that answers a request of buy_contract.
IsReply(data) == Has("proposal", data) \/ Has("buy", data)

\* The entry guard without its test of the position.
MayEnterWhileHolding == now - last_action_time > Cooldown

\* if self.position is None and time_since_last > 25
MayEnter == position = "None" /\ now - last_action_time > Cooldown

\* The two thresholds taken as signals themselves (<= and >=).
ContractTypeInclusive(r) ==
    IF r <= RsiLow THEN "CALL" ELSE IF r >= RsiHigh THEN "PUT" ELSE "None"

\* "CALL" if rsi < 30, "PUT" if rsi > 70, else None
ContractType(r) ==
    IF r < RsiLow THEN "CALL" ELSE IF r > RsiHigh THEN "PUT" ELSE "None"

\* The exit threshold taken as reached at 20 s (>=).
MustSettleAtThreshold(data) ==
    position # "None" /\ data.epoch - entry_time >= ExitThreshold

\* elif self.position is not None: ... if time_in_trade > 20
MustSettle(data) == position # "None" /\ data.epoch - entry_time > ExitThreshold

ClearLocals ==
    /\ tick' = NoFrame /\ rsi' = 0 /\ entry_volatility' = 0 /\ order' = NoOrder
    /\ attempts' = 0
    /\ proposal' = NoFrame

\* The reset left out: the settled position stays in place.
ResetPositionSkipped == UNCHANGED pvars

\* # Reset
ResetPosition ==
    /\ position' = "None" /\ entry_price' = 0 /\ entry_time' = NoTime
    /\ contract_id' = 0
    /\ UNCHANGED current_stake

\* losing_trades counted at every settlement, a win included.
LosingAfterAlways(losing, profit_amount) == losing + 1

\* else: self.losing_trades += 1
LosingAfter(losing, profit_amount) ==
    IF profit_amount > 0 THEN losing ELSE losing + 1

\* trade_data: the fields of the CSV row that describe the trade, the money
\* fields as the values handed to the '.2f' renderings (see TwoDecimals).
TradeData(data, profit_amount) ==
    [tipo |-> position, precio_entrada |-> entry_price,
     precio_salida |-> data.price, stake |-> current_stake,
     ganancia |-> profit_amount,
     balance_final |-> BalanceAfter(balance, profit_amount)]

\* f"{x:.2f}" of an amount of x units: the cent values it can print.  An
\* amount half-way between two cents prints as either, by the binary value
\* of the float (104.975 prints 104.97, 10104.975 prints 10104.98).
TwoDecimals(units) ==
    LET low == units \div UnitsPerCent
        rest == units % UnitsPerCent
    IN  IF rest = 0 THEN {low}
        ELSE IF 2 * rest < UnitsPerCent THEN {low}
        ELSE IF 2 * rest > UnitsPerCent THEN {low + 1}
        ELSE {low, low + 1}

\* _save_trade: append the row, or print the error of a failed write.
SaveTrade(trade_data) ==
    \E outcome \in SaveOutcomes :
        ledger' = IF outcome = "written" THEN Append(ledger, trade_data)
                  ELSE ledger

\* The settlement block (lines 272-317), up to the notification.
Settle(data) ==
    LET pnl == DirectionalPnl(position, entry_price, data.price)
        profit_amount == ProfitAmount(current_stake, pnl, entry_price)
    IN  /\ balance' = BalanceAfter(balance, profit_amount)
        /\ SaveTrade(TradeData(data, profit_amount))
        /\ total_trades' = total_trades + 1
        /\ winning_trades' = IF profit_amount > 0 THEN winning_trades + 1
                             ELSE winning_trades
        /\ losing_trades' = LosingAfter(losing_trades, profit_amount)
        /\ consecutive_losses' = LossesAfter(consecutive_losses, profit_amount)
        /\ settlements' = Append(settlements, profit_amount)
        /\ settled_ids' = settled_ids \cup {contract_id}
        /\ settled_at' = now
        /\ IF notifier
           THEN /\ pc' = "notify_closed"
                /\ UNCHANGED pvars
           ELSE /\ pc' = AfterTick
                /\ ResetPosition

\* The event generator yields a frame that carries no tick: return False.
FeedOther ==
    /\ pc = "feed" /\ queue_made /\ recv_queue # <<>>
    /\ ~ Has("tick", Head(recv_queue))
    /\ recv_queue' = Tail(recv_queue)
    /\ UNCHANGED <<websocket, authorized, queue_made, events, reader_task, vvars, avars,
                   pvars, tvars, lvars, pushed, settlements, settled_ids, settled_at, ledger, concurrent_recvs, opened, summaries>>
    /\ UNCHANGED cvars

\* A tick while flat with the cooldown elapsed and a signal: buy_contract is
\* entered and sends the proposal request (the send raises on a failed
\* transport, and buy_contract returns None).
FeedEnter ==
    /\ pc = "feed" /\ queue_made /\ recv_queue # <<>>
    /\ Has("tick", Head(recv_queue))
    /\ MayEnter
    /\ \E r \in RsiValues, v \in VolValues :
          LET stake == calculate_stake(balance, consecutive_losses, v,
                                       SignalStrength)
          IN  /\ ContractType(r) # "None"
              /\ entry_volatility' = v
              /\ IF transport_ok
                 THEN /\ requests' = requests \cup
                            {[kind |-> "proposal", n |-> orders_sent + 1,
                              quote |-> 0, amount |-> stake]}
                      /\ pc' = "p1"
                      /\ tick' = Head(recv_queue)
                      /\ rsi' = r
                      /\ order' = [n |-> orders_sent + 1,
                                   contract_type |-> ContractType(r),
                                   stake |-> stake]
                 ELSE /\ pc' = AfterTick
                      /\ rsi' = r
                      /\ UNCHANGED <<requests, tick, order>>
    /\ orders_sent' = orders_sent + 1
    /\ recv_queue' = Tail(recv_queue)
    /\ UNCHANGED <<websocket, authorized, queue_made, events, reader_task, transport_ok,
                   junk_seen, now, avars, pvars, tvars, attempts,
                   proposal, pushed, settlements, settled_ids, settled_at, ledger, concurrent_recvs, opened, summaries>>
    /\ UNCHANGED cvars

\* A tick that neither opens nor settles: flat without a signal or inside
\* the cooldown, or a position held for no longer than the exit threshold.
FeedIdle ==
    /\ pc = "feed" /\ queue_made /\ recv_queue # <<>>
    /\ Has("tick", Head(recv_queue))
    /\ \/ MayEnter /\ \E r \in RsiValues : ContractType(r) = "None" /\ rsi' = r
       \/ position = "None" /\ ~ MayEnter /\ UNCHANGED rsi
       \/ position # "None" /\ ~ MustSettle(Head(recv_queue)) /\ UNCHANGED rsi
    /\ pc' = AfterTick
    /\ recv_queue' = Tail(recv_queue)
    /\ UNCHANGED <<websocket, authorized, queue_made, events, reader_task, vvars, avars,
                   pvars, tvars, tick, entry_volatility, order, attempts, proposal,
                   orders_sent, pushed, settlements, settled_ids, settled_at, ledger, concurrent_recvs, opened,
                   summaries>>
    /\ UNCHANGED cvars

\* A tick while a position has been held for longer than the exit threshold.
FeedSettle ==
    /\ pc = "feed" /\ queue_made /\ recv_queue # <<>>
    /\ Has("tick", Head(recv_queue))
    /\ ~ MayEnter
    /\ MustSettle(Head(recv_queue))
    /\ Settle(Head(recv_queue))
    /\ recv_queue' = Tail(recv_queue)
    /\ UNCHANGED <<websocket, authorized, queue_made, events, reader_task, vvars, tvars,
                   tick, rsi, entry_volatility, order, attempts, proposal, orders_sent,
                   pushed, concurrent_recvs, opened, summaries>>
    /\ UNCHANGED cvars


(***************************************************************************)
(* DerivAPI.buy_contract: the two polling loops.  One step is one          *)
(* iteration: data = await self._recv_queue.get(), then the match, the     *)
(* requeue of a tick, or nothing.                                          *)
(***************************************************************************)
\* if "proposal" in data  /  if "buy" in data
Matches(phase, data) ==
    IF phase = "p1" THEN Has("proposal", data) ELSE Has("buy", data)

\* A popped tick put back at the front of the queue instead of its tail.
AfterPopAtFront(queue) ==
    IF Has("tick", Head(queue)) THEN queue ELSE Tail(queue)

\* A tick popped by the last iteration of the budget is not put back.
AfterPopDropsLast(queue) ==
    IF Has("tick", Head(queue)) /\ attempts + 1 < MaxAttempts
    THEN Append(Tail(queue), Head(queue))
    ELSE Tail(queue)

\* elif "tick" in data: await self._recv_queue.put(data)
AfterPop(queue) ==
    IF Has("tick", Head(queue)) THEN Append(Tail(queue), Head(queue))
    ELSE Tail(queue)

\* A failed buy that ends the session instead of the order attempt.
BuyFailedEndsSession ==
    /\ pc' = "finally"
    /\ ClearLocals
    /\ UNCHANGED <<pvars, last_action_time, opened>>

\* buy_contract returns None; tick_callback prints the failure and goes on.
BuyFailed ==
    /\ pc' = AfterTick
    /\ ClearLocals
    /\ UNCHANGED <<pvars, last_action_time, opened>>

\* An iteration that counts against the budget only when the frame it
\* popped is not a tick.
PollMissTicksFree(phase) ==
    /\ recv_queue' = AfterPop(recv_queue)
    /\ IF Has("tick", Head(recv_queue)) \/ attempts + 1 < MaxAttempts
       THEN /\ attempts' = IF Has("tick", Head(recv_queue)) THEN attempts
                           ELSE attempts + 1
            /\ UNCHANGED <<pc, tick, rsi, entry_volatility, order, proposal, pvars,
                           last_action_time, opened>>
       ELSE BuyFailed

\* An iteration that matches nothing.
PollMiss(phase) ==
    /\ recv_queue' = AfterPop(recv_queue)
    /\ IF attempts + 1 < MaxAttempts
       THEN /\ attempts' = attempts + 1
            /\ UNCHANGED <<pc, tick, rsi, entry_volatility, order, proposal, pvars, last_action_time,
                           opened>>
       ELSE BuyFailed

\* Phase 1: wait for the proposal.  A matched proposal that carries an
\* error makes buy_contract return None; otherwise the buy request follows.
P1Pop ==
    /\ pc = "p1" /\ queue_made /\ recv_queue # <<>>
    /\ IF Matches("p1", Head(recv_queue))
       THEN /\ recv_queue' = Tail(recv_queue)
            /\ IF Has("error", Head(recv_queue))
               THEN BuyFailed
               ELSE /\ proposal' = Head(recv_queue)
                    /\ pc' = "send_buy"
                    /\ UNCHANGED <<tick, rsi, entry_volatility, order, attempts, pvars,
                                   last_action_time, opened>>
       ELSE PollMiss("p1")
    /\ UNCHANGED <<websocket, authorized, queue_made, events, reader_task, vvars, avars,
                   notifier, start_time, orders_sent, pushed, settlements,
                   settled_ids, settled_at, ledger, concurrent_recvs, summaries>>
    /\ UNCHANGED cvars

\* buy_request = {"buy": proposal_id, "price": amount}; the send raises on a
\* failed transport and buy_contract returns None.
SendBuy ==
    /\ pc = "send_buy"
    /\ IF transport_ok
       THEN /\ requests' = requests \cup
                  {[kind |-> "buy", n |-> order.n, quote |-> proposal.id,
                    amount |-> order.stake]}
            /\ pc' = "p2"
            /\ attempts' = 0
            /\ UNCHANGED <<tick, rsi, entry_volatility, order, proposal, pvars, last_action_time,
                           opened>>
       ELSE /\ BuyFailed
            /\ UNCHANGED requests
    /\ UNCHANGED <<dvars, transport_ok, junk_seen, now, avars, notifier,
                   start_time, orders_sent, pushed, settlements, settled_ids, settled_at, ledger, concurrent_recvs,
                   summaries>>
    /\ UNCHANGED cvars

\* Phase 2: wait for the buy confirmation; on a contract, tick_callback
\* stores the position (lines 249-256).
P2Pop ==
    /\ pc = "p2" /\ queue_made /\ recv_queue # <<>>
    /\ IF Matches("p2", Head(recv_queue))
       THEN /\ recv_queue' = Tail(recv_queue)
            /\ IF Has("error", Head(recv_queue))
               THEN BuyFailed
               ELSE /\ position' = order.contract_type
                    /\ entry_price' = tick.price
                    /\ entry_time' = tick.epoch
                    /\ contract_id' = Head(recv_queue).id
                    /\ current_stake' = order.stake
                    /\ last_action_time' = now
                    /\ opened' = opened + 1
                    /\ pc' = IF notifier THEN "notify_opened" ELSE AfterTick
                    /\ ClearLocals
       ELSE PollMiss("p2")
    /\ UNCHANGED <<websocket, authorized, queue_made, events, reader_task, vvars, avars,
                   notifier, start_time, orders_sent, pushed, settlements,
                   settled_ids, settled_at, ledger, concurrent_recvs, summaries>>
    /\ UNCHANGED cvars

(***************************************************************************)
(* The notifications tick_callback awaits.  send_message catches           *)
(* TelegramError and returns; any other exception leaves tick_callback and *)
(* the event loop of run().                                                *)
(***************************************************************************)
\* await self.notifier.send_trade_opened(...)
NotifyOpened ==
    /\ pc = "notify_opened"
    /\ \E outcome \in NotifyOutcomes :
          pc' = IF outcome # "raise" THEN AfterTick ELSE "finally"
    /\ UNCHANGED <<dvars, vvars, avars, pvars, tvars, tick, rsi, entry_volatility, order, attempts,
                   proposal, orders_sent, hvars>>
    /\ UNCHANGED cvars

\* await self.notifier.send_trade_closed(...), then # Reset
NotifyClosed ==
    /\ pc = "notify_closed"
    /\ \E outcome \in NotifyOutcomes :
          IF outcome # "raise"
          THEN /\ ResetPosition
               /\ pc' = AfterTick
          ELSE /\ UNCHANGED pvars
               /\ pc' = "finally"
    /\ UNCHANGED <<dvars, vvars, avars, tvars, tick, rsi, entry_volatility, order, attempts, proposal,
                   orders_sent, hvars>>
    /\ UNCHANGED cvars

Session ==
    \/ Connect \/ Authorize \/ Subscribe \/ Finalize
    \/ FeedOther \/ FeedEnter \/ FeedIdle \/ FeedSettle
    \/ P1Pop \/ SendBuy \/ P2Pop \/ NotifyOpened \/ NotifyClosed

\* Every schedule of the reader against the session, failures included.
Next ==
    \/ Session
    \/ ReaderTick(AnySchedule) \/ ReaderReply(AnySchedule)
    \/ ReaderDecodeFail(AnySchedule) \/ ReaderTransportFail(AnySchedule)

Spec == Init /\ [][Next]_vars

\* The event loop runs the session task whenever it can take a step; the
\* venue owes nothing.
SpecLive == Init /\ [][Next]_vars /\ WF_vars(Session)

\* The session keeps up with the venue: a frame arrives only once the queue
\* has been drained, and the transport neither garbles nor fails.
NextTrade ==
    \/ Session
    \/ ReaderTick(CalmSchedule) \/ ReaderReply(CalmSchedule)

SpecTrade == Init /\ [][NextTrade]_vars

(***************************************************************************)
(* A client that drives a DerivAPI itself, as test_connection does: one    *)
(* task calls connect(), authorize() and close() in any order, one call at *)
(* a time; the reader runs in the background; one task iterates            *)
(* DerivAPI.events.  close() is taken from one suspension to the next:     *)
(* the await of the cancelled reader, the await of websocket.close(), the  *)
(* reset of the fields.                                                    *)
(***************************************************************************)
ClientSchedule == [frames |-> ClientFrames, queue |-> ClientFrames, steps |-> {26}]

\* The call returns: what it returned, and the operation that returned before.
Return(operation, value) ==
    returned' = [op |-> operation, ok |-> value, n |-> returned.n + 1,
                 prev |-> returned.op]

\* The fields of DerivAPI.__init__.
Defaults ==
    /\ websocket = "none" /\ ~ queue_made /\ ~ events
    /\ reader_task = "none" /\ ~ authorized

\* close() without its test of the transport.
HasTransportAlways == TRUE

\* if self.websocket:
HasTransport == websocket # "none"

\* close() going on to the transport without waiting for the reader.
ReaderNotJoined == TRUE

\* await self._reader_task returns once the reader task has ended.
ReaderJoined == reader_task \notin {"running", "cancelled"}

\* self._recv_queue = None while a task is suspended in get() on that queue:
\* the task keeps the queue object, which no producer will fill again.  If
\* a frame had already woken it, it will still take that frame.
Orphan ==
    consumer' = IF consumer # "waiting" THEN consumer
                ELSE IF recv_queue = <<>> THEN "orphaned" ELSE "woken"

\* connect(): websockets.connect gives a new transport, or raises and the
\* handle is set to None.
ApiConnect ==
    /\ api = "idle" /\ calls < ClientCalls
    /\ calls' = calls + 1
    /\ \/ /\ websocket' = "open"
          /\ transport_ok' = TRUE
          /\ transports' = transports + 1
          /\ Return("connect", TRUE)
       \/ /\ websocket' = "none"
          /\ UNCHANGED <<transport_ok, transports>>
          /\ Return("connect", FALSE)
    /\ UNCHANGED <<authorized, queue_made, events, recv_queue, reader_task,
                   requests, junk_seen, now, avars, pvars, tvars, lvars, hvars,
                   api, consumer>>

\* response = await self.websocket.recv() of authorize() is reached: there
\* is a transport and the send went through.
AuthorizeReceives == websocket # "none" /\ transport_ok

\* The reader task is suspended in its own recv() on the transport (a
\* running reader is nowhere else when another task runs: the put on the
\* unbounded queue does not suspend).
ReaderReceiving == reader_task = "running"

\* authorize(): one send and one recv on the transport.  The reply carries
\* the authorize marker only if the send and the recv went through, which
\* they do not on a failed transport nor while the reader is already
\* suspended in recv() on it (a second concurrent recv raises).
ApiAuthorize ==
    /\ api = "idle" /\ calls < ClientCalls
    /\ calls' = calls + 1
    /\ concurrent_recvs' = IF AuthorizeReceives /\ ReaderReceiving
                           THEN concurrent_recvs + 1 ELSE concurrent_recvs
    /\ \/ /\ websocket # "none" /\ transport_ok /\ reader_task # "running"
          /\ authorized' = TRUE
          /\ queue_made' = TRUE
          /\ events' = TRUE
          /\ reader_task' = IF reader_task = "none" THEN "running" ELSE reader_task
          /\ Return("authorize", TRUE)
       \/ /\ UNCHANGED <<authorized, queue_made, events, reader_task>>
          /\ Return("authorize", FALSE)
    /\ UNCHANGED <<websocket, recv_queue, vvars, avars, pvars, tvars, lvars, pushed,
                   settlements, settled_ids, settled_at, ledger, opened, summaries,
                   api, transports, consumer>>

\* close() up to its first suspension: with a transport, cancel the reader
\* and wait for it, or go on to websocket.close() if no reader is running;
\* without one, reset the fields and return.
ApiCloseCall ==
    /\ api = "idle" /\ calls < ClientCalls
    /\ calls' = calls + 1
    /\ IF HasTransport
       THEN /\ IF reader_task = "running"
               THEN reader_task' = "cancelled" /\ api' = "close_join"
               ELSE UNCHANGED reader_task /\ api' = "close_transport"
            /\ UNCHANGED <<websocket, authorized, queue_made, events, recv_queue,
                           returned, consumer>>
       ELSE /\ Closed
            /\ Orphan
            /\ Return("close", TRUE)
            /\ UNCHANGED api
    /\ UNCHANGED <<vvars, avars, pvars, tvars, lvars, hvars, transports>>

\* _read_loop: except asyncio.CancelledError: return
ReaderCancelled ==
    /\ reader_task = "cancelled"
    /\ reader_task' = "done"
    /\ UNCHANGED <<websocket, authorized, queue_made, events, recv_queue, vvars,
                   avars, pvars, tvars, lvars, hvars, cvars>>

\* The reader has ended: close() goes on to await self.websocket.close().
ApiCloseJoined ==
    /\ api = "close_join"
    /\ ReaderJoined
    /\ api' = "close_transport"
    /\ UNCHANGED <<dvars, vvars, avars, pvars, tvars, lvars, hvars, calls,
                   returned, transports, consumer>>

\* websocket.close() has returned: the fields are reset and close() returns.
ApiCloseReturn ==
    /\ api = "close_transport"
    /\ Closed
    /\ Orphan
    /\ api' = "idle"
    /\ Return("close", TRUE)
    /\ UNCHANGED <<vvars, avars, pvars, tvars, lvars, hvars, calls, transports>>

\* async for response in api.events: _event_generator runs up to its first
\* await self._recv_queue.get().
ConsumerStart ==
    /\ consumer = "idle" /\ events /\ queue_made
    /\ consumer' = "waiting"
    /\ UNCHANGED <<dvars, vvars, avars, pvars, tvars, lvars, hvars, api, calls,
                   returned, transports>>

\* item = await self._recv_queue.get(); yield item; and the next get().
ConsumerPull ==
    /\ consumer = "waiting" /\ queue_made /\ recv_queue # <<>>
    /\ recv_queue' = Tail(recv_queue)
    /\ UNCHANGED <<websocket, authorized, queue_made, events, reader_task, vvars,
                   avars, pvars, tvars, lvars, hvars, cvars>>

\* The woken task yields the frame it was woken for; its next
\* self._recv_queue.get() finds None and raises.
ConsumerStale ==
    /\ consumer = "woken"
    /\ consumer' = "failed"
    /\ UNCHANGED <<dvars, vvars, avars, pvars, tvars, lvars, hvars, api, calls,
                   returned, transports>>

Client ==
    \/ ApiConnect \/ ApiAuthorize
    \/ ApiCloseCall \/ ApiCloseJoined \/ ApiCloseReturn

Consumer == ConsumerStart \/ ConsumerPull \/ ConsumerStale

NextClient ==
    \/ Client \/ Consumer \/ ReaderCancelled
    \/ ReaderDecodeFail(ClientSchedule) \/ ReaderTransportFail(ClientSchedule)

SpecClient == Init /\ [][NextClient]_vars

\* The event loop runs every task that can take a step.
SpecClientLive ==
    /\ Init /\ [][NextClient]_vars
    /\ WF_vars(ApiCloseJoined \/ ApiCloseReturn)
    /\ WF_vars(ReaderCancelled)
    /\ WF_vars(ConsumerPull \/ ConsumerStale)

(***************************************************************************)
(* The sizing of an order taken alone: calculate_stake applied, as         *)
(* tick_callback applies it (line 235), to an Account that earlier trades  *)
(* of a LiveTrader(initial_balance) have left with some balance and some   *)
(* run of losses, and to the volatility of the signals.                    *)
(***************************************************************************)
MaxLosses == 4

\* self.balance, in cents: below min_stake, below, at and above
\* 20 * min_stake, and the initial balance of main().
BalancesInCents ==
    {500, 5000, 19999, 20000, 20001, 50000, 100033, 987655, 1000000}

\* signals['volatility'] in hundredths, around the tiers 0.3 and 0.5
Volatilities == {0, 30, 31, 50, 51, 120}

\* 'signal_strength': 0, the strength the signals carry
ProvidedSignalStrength == 0

InitStake ==
    /\ websocket = "none" /\ authorized = FALSE /\ queue_made = FALSE
    /\ events = FALSE /\ recv_queue = <<>> /\ reader_task = "none"
    /\ transport_ok = TRUE /\ requests = {} /\ junk_seen = FALSE
    /\ now = 0
    /\ notifier \in BOOLEAN
    /\ \E c \in BalancesInCents : balance = c * UnitsPerCent
    /\ consecutive_losses \in 0..MaxLosses
    /\ losing_trades = consecutive_losses /\ total_trades = consecutive_losses
    /\ winning_trades = 0
    /\ position = "None" /\ entry_price = 0
    /\ entry_time = NoTime /\ contract_id = 0 /\ current_stake = 0
    /\ start_time = 0 /\ last_action_time = 0
    /\ pc = "sizing" /\ tick = NoFrame /\ rsi = 0 /\ entry_volatility = 0
    /\ order = NoOrder /\ attempts = 0
    /\ proposal = NoFrame /\ orders_sent = 0
    /\ pushed = 0
    /\ settlements = <<>> /\ settled_ids = {} /\ settled_at = NoTime
    /\ ledger = <<>> /\ concurrent_recvs = 0 /\ opened = 0
    /\ summaries = 0
    /\ api = "idle" /\ calls = 0 /\ returned = NoReturn /\ transports = 0
    /\ consumer = "idle"

\* stake = self.calculate_stake(signals['volatility'], 3)
SizeOrder ==
    /\ pc = "sizing"
    /\ \E r \in RsiValues, v \in Volatilities :
          /\ ContractType(r) # "None"
          /\ rsi' = r
          /\ entry_volatility' = v
          /\ order' = [n |-> orders_sent + 1,
                       contract_type |-> ContractType(r),
                       stake |-> calculate_stake(balance, consecutive_losses, v,
                                                 SignalStrength)]
    /\ pc' = "sized"
    /\ UNCHANGED <<dvars, vvars, avars, pvars, tvars, tick, attempts, proposal,
                   orders_sent, hvars, cvars>>

NextStake == SizeOrder

SpecStake == InitStake /\ [][NextStake]_vars

(***************************************************************************)
(* Vocabulary of the properties.                                           *)
(***************************************************************************)
InBuy == pc \in {"p1", "send_buy", "p2"}

\* One iteration of a polling loop of buy_contract is taken in this step.
Polls == pc \in {"p1", "p2"} /\ <<pc, attempts>>' # <<pc, attempts>>

\* The event generator yields the head of the queue in this step.
Pulls == pc = "feed" /\ recv_queue # <<>> /\ recv_queue' = Tail(recv_queue)

\* Place of the first frame of q the phase's predicate matches, 0 if none.
FirstMatch(phase, q) ==
    IF \E i \in 1..Len(q) : Matches(phase, q[i])
    THEN CHOOSE i \in 1..Len(q) :
            /\ Matches(phase, q[i])
            /\ \A j \in 1..(i - 1) : ~ Matches(phase, q[j])
    ELSE 0

\* The polling loop of the current phase ends in this step with frame f.
Returns(f) ==
    IF pc = "p1" THEN pc' = "send_buy" /\ proposal' = f
    ELSE pc' \notin {"p1", "p2"} /\ position' # "None" /\ contract_id' = f.id

\* The polling loop of the current phase ends in this step with some frame.
ReturnsAFrame ==
    IF pc = "p1" THEN pc' = "send_buy" ELSE position' # "None"

\* The tick frames of q are in the order in which the reader received them.
TicksInArrivalOrder(q) ==
    \A i, j \in 1..Len(q) :
        (i < j /\ Has("tick", q[i]) /\ Has("tick", q[j])) => q[i].id < q[j].id

RECURSIVE Sum(_)
Sum(seq) == IF seq = <<>> THEN 0 ELSE Head(seq) + Sum(Tail(seq))

\* Number of losses at the end of a sequence of profit amounts.
RECURSIVE TrailingLosses(_)
TrailingLosses(seq) ==
    IF seq = <<>> \/ seq[Len(seq)] > 0 THEN 0
    ELSE 1 + TrailingLosses(SubSeq(seq, 1, Len(seq) - 1))

\* A call of the client returns in this step from the given operation.
ReturnsFrom(operation) == returned' # returned /\ returned'.op = operation

\* The client calls close() in this step.
CloseCalled ==
    api = "idle" /\ calls' # calls /\ (api' # "idle" \/ ReturnsFrom("close"))

\* The reader task can still receive or push.
ReaderAlive == reader_task \in {"running", "cancelled"}

(***************************************************************************)
(* C1.  As claimed: a phase of buy_contract returns the first frame of the *)
(* queue that matches its predicate however many ticks are queued ahead of *)
(* it; so a polling loop never gives up while a matching frame is queued.  *)
(***************************************************************************)
C1_ReturnsFirstMatchRegardless ==
    [][(Polls /\ FirstMatch(pc, recv_queue) > 0)
          => (ReturnsAFrame \/ pc' = pc)]_vars

(***************************************************************************)
(* C1, amended.  Each polling iteration returns the head of the queue when *)
(* it is the first matching frame, returns nothing otherwise, and, while   *)
(* the first matching frame lies within the attempts left of the phase's   *)
(* budget of 10, brings that frame one place nearer the head: a matching   *)
(* frame with fewer frames ahead of it than attempts left is returned.     *)
(***************************************************************************)
C1_ReturnsFirstMatchWithinBudget ==
    [][Polls =>
         LET k == FirstMatch(pc, recv_queue)
             left == MaxAttempts - attempts
         IN  /\ (k = 1) => Returns(Head(recv_queue))
             /\ (k # 1) => ~ ReturnsAFrame
             /\ (k > 1 /\ k <= left) =>
                   /\ pc' = pc /\ attempts' = attempts + 1
                   /\ FirstMatch(pc, recv_queue') = k - 1
                   /\ recv_queue'[k - 1] = recv_queue[k]]_vars

\* Phase 1 has returned a proposal after requeueing ticks queued ahead of it.
C1_Witness ==
    /\ pc = "send_buy" /\ attempts >= 2
    /\ recv_queue # <<>> /\ Has("tick", recv_queue[Len(recv_queue)])

(***************************************************************************)
(* C2.  After an order call has returned, the frames left in the queue are *)
(* in their original relative order; in particular the ticks are queued in *)
(* the order in which the reader received them, which is the order in      *)
(* which the session will receive them.                                    *)
(***************************************************************************)
C2_TicksKeepArrivalOrder == (~ InBuy) => TicksInArrivalOrder(recv_queue)

(***************************************************************************)
(* C3.  A frame a polling loop pops and does not match is pushed back to   *)
(* the tail of the queue, whatever its kind: no frame is dropped.          *)
(***************************************************************************)
C3_UnmatchedFramesRequeued ==
    [][(Polls /\ ~ Matches(pc, Head(recv_queue)))
          => recv_queue' = Append(Tail(recv_queue), Head(recv_queue))]_vars

(***************************************************************************)
(* C4.  The event generator never takes a proposal or buy reply from the   *)
(* queue: replies are consumed by order calls only.                        *)
(***************************************************************************)
C4_FeedNeverTakesReply ==
    [][Pulls => ~ IsReply(Head(recv_queue))]_vars

(***************************************************************************)
(* C5.  The proposal a buy call matches and references in its buy request  *)
(* answers the proposal request of that same call.                         *)
(***************************************************************************)
C5_QuoteOfSameCall ==
    pc \in {"send_buy", "p2"} => proposal.req = order.n

(***************************************************************************)
(* C6.  At most one Position: a request is sent only while no position is  *)
(* held, a position appears only in the step in which phase 2 of a buy     *)
(* call matches its confirmation, and the positions opened exceed the      *)
(* positions settled by at most one.                                       *)
(***************************************************************************)
C6_AtMostOnePosition ==
    /\ [](InBuy => position = "None")
    /\ [](opened - total_trades \in {0, 1})
    /\ [][/\ (requests' # requests /\ requests' \ requests # {})
                => position = "None"
          /\ (position' # position /\ position' # "None")
                => /\ pc = "p2" /\ position = "None"
                   /\ Matches("p2", Head(recv_queue))
                   /\ opened' = opened + 1]_vars

\* A second position is held after the first one was settled.
C6_Witness == position # "None" /\ opened = 2 /\ total_trades = 1

(***************************************************************************)
(* C7.  The Account changes only in a settlement step, all fields          *)
(* together; a position is settled once and is cleared only after its      *)
(* settlement; any other step leaves the Account as it is.                 *)
(***************************************************************************)
C7_AccountChangesOnlyAtSettlement ==
    /\ [](Cardinality(settled_ids) = total_trades)
    /\ [][/\ (Account' # Account) =>
                /\ Pulls /\ Has("tick", Head(recv_queue))
                /\ MustSettle(Head(recv_queue))
                /\ balance' # balance
                /\ total_trades' = total_trades + 1
                /\ \/ /\ winning_trades' = winning_trades + 1
                      /\ losing_trades' = losing_trades
                      /\ consecutive_losses' = 0
                   \/ /\ winning_trades' = winning_trades
                      /\ losing_trades' = losing_trades + 1
                      /\ consecutive_losses' = consecutive_losses + 1
                /\ contract_id \notin settled_ids
                /\ settled_ids' = settled_ids \cup {contract_id}
          /\ (position # "None" /\ position' = "None") =>
                contract_id \in settled_ids']_vars

\* Two positions have been settled.
C7_Witness == total_trades = 2 /\ position = "None" /\ pc = "feed"

(***************************************************************************)
(* C8.  consecutive_losses is the number of losing settlements since the   *)
(* last winning one (or since the start of the session).                   *)
(***************************************************************************)
C8_ConsecutiveLosses == consecutive_losses = TrailingLosses(settlements)

\* A win after a loss has brought the count back to 0.
C8_Witness ==
    /\ Len(settlements) = 2 /\ settlements[1] < 0 /\ settlements[2] > 0
    /\ consecutive_losses = 0

(***************************************************************************)
(* C9.  The balance is the initial balance plus the signed profit amounts  *)
(* of the settlements so far, one per settled trade.                       *)
(***************************************************************************)
C9_BalanceIsSumOfPnl ==
    /\ balance = InitialBalance + Sum(settlements)
    /\ Len(settlements) = total_trades

\* Two trades settled, one won and one lost.
C9_Witness ==
    /\ total_trades = 2 /\ winning_trades = 1 /\ losing_trades = 1

(***************************************************************************)
(* C10.  At settlement the directional P&L is exit - entry for a CALL and  *)
(* entry - exit for a PUT; a strictly positive P&L is a win that adds 95%  *)
(* of the stake and counts a winning trade, anything else is a loss that   *)
(* takes the whole stake and counts a losing trade and one more            *)
(* consecutive loss.                                                       *)
(***************************************************************************)
C10_SettlementRule ==
    [][(total_trades' # total_trades) =>
         LET exit == Head(recv_queue).price
             pnl == IF position = "CALL" THEN exit - entry_price
                    ELSE entry_price - exit
             stake_units == current_stake * UnitsPerCent
         IN  IF pnl > 0
             THEN /\ 100 * (balance' - balance) = 95 * stake_units
                  /\ winning_trades' = winning_trades + 1
                  /\ losing_trades' = losing_trades
             ELSE /\ balance' = balance - stake_units
                  /\ losing_trades' = losing_trades + 1
                  /\ consecutive_losses' = consecutive_losses + 1
                  /\ winning_trades' = winning_trades]_vars

\* A PUT has just been settled as a win, and a trade was lost before it.
C10_Witness ==
    /\ pc = "notify_closed" /\ position = "PUT"
    /\ Len(settlements) = 2 /\ settlements[1] < 0 /\ settlements[2] > 0

(***************************************************************************)
(* C11.  A tick taken while flat with the cooldown elapsed starts a buy    *)
(* call iff the RSI is below 30 (a CALL) or above 70 (a PUT), for the      *)
(* computed stake, and starts none for 30 <= RSI <= 70; the tick and the   *)
(* order stay those of the call while it runs, and a position that opens   *)
(* takes the direction and the stake of the order and the price and the    *)
(* time of the tick that started it.                                       *)
(***************************************************************************)
C11_SignalDrivesEntry ==
    [][/\ (Pulls /\ Has("tick", Head(recv_queue)) /\ MayEnter) =>
             /\ (orders_sent' = orders_sent + 1) <=> (rsi' < 30 \/ rsi' > 70)
             /\ (rsi' >= 30 /\ rsi' <= 70) =>
                   /\ requests' = requests /\ ~ InBuy' /\ position' = "None"
             /\ ((rsi' < 30 \/ rsi' > 70) /\ transport_ok) =>
                   /\ pc' = "p1" /\ tick' = Head(recv_queue)
                   /\ order'.contract_type = IF rsi' < 30 THEN "CALL" ELSE "PUT"
                   /\ \E q \in requests' \ requests :
                         /\ q.kind = "proposal" /\ q.amount = order'.stake
                         /\ requests' = requests \cup {q}
       /\ (InBuy /\ InBuy') => (tick' = tick /\ order' = order)
       /\ (InBuy /\ requests' # requests /\ requests' \ requests # {}) =>
             \E q \in requests' \ requests : q.amount = order.stake
       /\ (position = "None" /\ position' # "None") =>
             /\ InBuy
             /\ position' = order.contract_type
             /\ position' \in {"CALL", "PUT"}
             /\ entry_price' = tick.price
             /\ entry_time' = tick.epoch
             /\ current_stake' = order.stake]_vars

\* A PUT is open, entered at the price and the time of its tick.
C11_Witness ==
    /\ position = "PUT" /\ opened = 1 /\ entry_price \in Prices
    /\ entry_time > 0 /\ current_stake >= MinStakeCents

(***************************************************************************)
(* C12.  When phase 1 of a buy call reads the error reply the venue gave   *)
(* to its proposal request, the call fails in that step: the session is    *)
(* out of buy_contract, flat, with no buy request sent and the Account as  *)
(* it was.                                                                 *)
(***************************************************************************)
C12_ErrorReplyFailsBuy ==
    [][(/\ pc = "p1" /\ Polls
        /\ Has("error", Head(recv_queue))
        /\ Head(recv_queue).req = order.n)
          => /\ ~ InBuy' /\ position' = "None"
             /\ requests' = requests /\ Account' = Account]_vars

(***************************************************************************)
(* C13.  While a buy call runs the Account does not change, and the        *)
(* Position does not change unless the call succeeds; when the call fails  *)
(* (error reply, attempts exhausted, failed send) the Account and the      *)
(* Position are as they were, the session is flat, and it goes back to the *)
(* feed, ending only if the duration of the run has elapsed.               *)
(***************************************************************************)
C13_FailedBuyLeavesSessionFlat ==
    [][/\ InBuy => Account' = Account
       /\ (InBuy /\ position' = "None") => UNCHANGED pvars
       /\ (/\ (InBuy \/ orders_sent' # orders_sent)
            /\ ~ InBuy'
            /\ position' = "None")
             => /\ Account' = Account
                /\ UNCHANGED pvars
                /\ \/ pc' = "feed"
                   \/ pc' = "finally" /\ now - start_time >= DurationSeconds]_vars

\* After a buy call that failed, the session has taken a later tick and
\* started a second call.
C13_Witness == orders_sent = 2 /\ opened = 0 /\ pc = "p1" /\ position = "None"

(***************************************************************************)
(* C14.  Once the reader has failed on the transport while the session is  *)
(* consuming the feed, the session leaves its event loop and finalizes:    *)
(* it ends with exactly one final summary printed.                         *)
(***************************************************************************)
C14_TransportFailureEndsSession ==
    (pc = "feed" /\ ~ transport_ok /\ reader_task = "done")
        ~> (pc = "ended" /\ summaries = 1)

(***************************************************************************)
(* C18.  However a run of the session ends (duration expiry, failed        *)
(* connect, failed authorization, failed subscription, an exception while  *)
(* a tick is processed), the final summary has been printed exactly once.  *)
(***************************************************************************)
C18_SummaryOnEveryTermination == pc = "ended" => summaries = 1

(***************************************************************************)
(* C15.  A task suspended on the queue while close() runs is released: it  *)
(* eventually leaves its get(), failing or ending.                         *)
(***************************************************************************)
C15_CloseReleasesConsumer ==
    (consumer = "waiting" /\ api # "idle") ~> (consumer = "failed")

(***************************************************************************)
(* C16.  close() is idempotent: whatever the state it is called in, it     *)
(* returns without error with the fields at their defaults; called again   *)
(* in that state it returns at once, leaves every field as it is and       *)
(* starts no operation on a transport.                                     *)
(***************************************************************************)
C16_CloseIdempotent ==
    [][/\ ReturnsFrom("close") => (returned'.ok /\ Defaults')
       /\ (CloseCalled /\ Defaults) =>
             /\ ReturnsFrom("close") /\ returned'.ok /\ api' = "idle"
             /\ UNCHANGED <<dvars, transport_ok, transports>>]_vars

\* close() has returned twice in a row on a client that had been connected
\* and authorized.
C16_Witness ==
    /\ returned.op = "close" /\ returned.prev = "close" /\ returned.n = 4
    /\ transports = 1 /\ Defaults

(***************************************************************************)
(* C17.  In close() the reader has ended before websocket.close() is       *)
(* started and while it runs, so it neither receives nor pushes on a       *)
(* closed transport; when close() returns the client has no transport, no  *)
(* queue, no event generator, no reader task and is not authorized.        *)
(***************************************************************************)
C17_ReaderEndsBeforeTransport ==
    /\ [](api = "close_transport" => ~ ReaderAlive)
    /\ [][/\ api' = "close_transport" => (~ ReaderAlive' /\ pushed' = pushed)
          /\ ReturnsFrom("close") =>
                /\ websocket' = "none" /\ ~ queue_made' /\ ~ events'
                /\ reader_task' = "none" /\ ~ authorized']_vars

\* close() has returned on an authorized client whose reader was running
\* and had pushed a frame.
C17_Witness ==
    /\ returned.op = "close" /\ returned.prev = "authorize" /\ api = "idle"
    /\ pushed = 1 /\ transport_ok /\ Defaults

(***************************************************************************)
(* C19.  When authorize() returns after a reply with the authorize marker  *)
(* the client is authorized, has a queue and a running reader; when it     *)
(* reports failure it has not authorized the client, has made no queue     *)
(* and has started no reader.                                              *)
(***************************************************************************)
C19_AuthorizeOutcome ==
    [][ReturnsFrom("authorize") =>
          IF returned'.ok
          THEN authorized' /\ queue_made' /\ reader_task' = "running"
          ELSE UNCHANGED <<authorized, queue_made, reader_task>>]_vars

(***************************************************************************)
(* C20.  connect() on a client that holds a transport is a no-op: no       *)
(* transport is opened and the handle, the queue, the reader task and the  *)
(* authorization flag are left as they are.                                *)
(***************************************************************************)
C20_ConnectWhenConnected ==
    [][(ReturnsFrom("connect") /\ websocket = "open")
          => UNCHANGED <<dvars, transports>>]_vars

(***************************************************************************)
(* C21.  A notification never affects trading: whatever happens to the     *)
(* send, the Account is left as it is, the session goes on to where it     *)
(* goes without a notifier, and after the notification of a settlement     *)
(* the Position is reset as it is without one.                             *)
(***************************************************************************)
C21_NotificationNeverAffectsTrading ==
    [][/\ (pc = "notify_opened" /\ pc' # pc) =>
             /\ pc' = AfterTick
             /\ UNCHANGED <<avars, pvars>>
       /\ (pc = "notify_closed" /\ pc' # pc) =>
             /\ pc' = AfterTick
             /\ UNCHANGED avars
             /\ position' = "None" /\ entry_time' = NoTime]_vars

(***************************************************************************)
(* C23.  A polling loop of buy_contract pops one frame per iteration and   *)
(* makes at most MaxAttempts iterations: an iteration that matches nothing *)
(* uses one attempt whatever the frame it popped (a requeued tick too),    *)
(* and the one that uses the last makes the call fail,                     *)
(* leaving the session flat with no request sent (so no buy request after  *)
(* a failed phase 1).  A phase ends only in a step that pops a frame: the  *)
(* passing of time alone never ends it.                                    *)
(***************************************************************************)
C23_AttemptBudget ==
    /\ [](attempts < MaxAttempts)
    /\ [][/\ Polls =>
               /\ recv_queue # <<>>
               /\ recv_queue' \in {Tail(recv_queue), AfterPop(recv_queue)}
               /\ ~ Matches(pc, Head(recv_queue)) =>
                     IF attempts + 1 < MaxAttempts
                     THEN attempts' = attempts + 1 /\ UNCHANGED <<pc, requests>>
                     ELSE /\ ~ InBuy' /\ position' = "None"
                          /\ UNCHANGED <<requests, opened>>
          /\ (pc \in {"p1", "p2"} /\ pushed' = pushed /\ recv_queue' # recv_queue)
                => Polls
          /\ (pc \in {"p1", "p2"} /\ now' # now) => UNCHANGED <<pc, attempts>>
          /\ (pc = "p1" /\ pc' # "send_buy") =>
                \A r \in requests' \ requests : r.kind # "buy"]_vars

\* A buy call has failed, and the session is back on the feed, while the
\* transport works and its proposal request was never answered: its ten
\* iterations were used up.
C23_Witness ==
    /\ pc = "feed" /\ orders_sent = 1 /\ opened = 0 /\ transport_ok
    /\ \E r \in requests : r.kind = "proposal" /\ r.n = 1

(***************************************************************************)
(* C24.  Every buy call eventually returns: a session that is inside       *)
(* buy_contract eventually is outside it, also when the transport fails or *)
(* the venue sends nothing more while the call waits for its reply.        *)
(***************************************************************************)
C24_BuyCallReturns == InBuy ~> ~ InBuy

(***************************************************************************)
(* C26.  When a receive fails on the transport the reader pushes exactly   *)
(* one frame, marked error and nothing else, and has ended in that same    *)
(* step; a reader that has ended pushes nothing more.                      *)
(***************************************************************************)
C26_OneSentinelThenEnd ==
    [][/\ (transport_ok /\ ~ transport_ok') =>
             /\ pushed' = pushed + 1
             /\ recv_queue' = Append(recv_queue, recv_queue'[Len(recv_queue')])
             /\ recv_queue'[Len(recv_queue')].keys = {"error"}
             /\ reader_task = "running" /\ reader_task' = "done"
       /\ reader_task = "done" => pushed' = pushed /\ reader_task' # "running"]_vars

\* The reader has failed on the transport after pushing other frames, and
\* its sentinel is the last frame of the queue.
C26_Witness ==
    /\ ~ transport_ok /\ reader_task = "done" /\ Len(recv_queue) >= 2
    /\ recv_queue[Len(recv_queue)].keys = {"error"}
    /\ recv_queue[Len(recv_queue)].id = pushed

C28_SettledOnFirstTickPastThreshold ==
    [][(Pulls /\ Has("tick", Head(recv_queue)) /\ position # "None") =>
          IF Head(recv_queue).epoch - entry_time > ExitThreshold
          THEN /\ total_trades' = total_trades + 1
               /\ settled_ids' = settled_ids \cup {contract_id}
               /\ pc' = "notify_closed" \/ position' = "None"
          ELSE /\ Account' = Account
               /\ UNCHANGED pvars
               /\ settlements' = settlements]_vars

\* A position is held and the tick that came exactly ExitThreshold seconds
\* after its entry tick has been processed without settling it.
C28_Witness ==
    /\ position # "None" /\ pc = "feed" /\ recv_queue = <<>>
    /\ now = entry_time + ExitThreshold
    /\ total_trades = 0 /\ balance = InitialBalance

(***************************************************************************)
(* C29.  An order is issued only while flat and more than Cooldown seconds *)
(* after the last trading action of the session: the latest opening or     *)
(* settlement of a position, or the start of the session if there was      *)
(* none.                                                                   *)
(***************************************************************************)
LastTradingAction ==
    IF settled_at > last_action_time THEN settled_at ELSE last_action_time

C29_CooldownSinceLastAction ==
    [][orders_sent' # orders_sent =>
          position = "None" /\ now - LastTradingAction > Cooldown]_vars

(***************************************************************************)
(* C22.  Whatever the balance, the volatility and the run of losses, the   *)
(* stake of a sized order lies between min_stake (10) and 5% of the        *)
(* balance.                                                                *)
(***************************************************************************)
C22_StakeWithinLimits ==
    pc = "sized" =>
        /\ order.stake >= MinStakeCents
        /\ order.stake * UnitsPerCent * 20 <= balance

(***************************************************************************)
(* C30.  The stake of a sized order is the one the policy gives for the    *)
(* balance, the run of losses and the volatility and strength of the       *)
(* signals at entry: the factor 1.3 enters it only when the signals are    *)
(* strong.                                                                 *)
(***************************************************************************)
C30_StakeFollowsSignalStrength ==
    pc = "sized" =>
        order.stake = calculate_stake(balance, consecutive_losses,
                                      entry_volatility, ProvidedSignalStrength)

(***************************************************************************)
(* C25.  A buy call sends one proposal request, when it starts, and at     *)
(* most one buy request, after its phase 1 has matched a proposal; the buy *)
(* request carries the id of that proposal and the price of that proposal. *)
(***************************************************************************)
C25_ConfirmCarriesQuote ==
    [][\A r \in requests' \ requests :
          /\ r.kind = "proposal" =>
                /\ orders_sent' = orders_sent + 1 /\ r.n = orders_sent'
                /\ pc = "feed" /\ pc' = "p1"
          /\ r.kind = "buy" =>
                /\ pc = "send_buy" /\ pc' = "p2" /\ r.n = order.n
                /\ Has("proposal", proposal)
                /\ r.quote = proposal.id
                /\ r.amount = proposal.price]_vars

(***************************************************************************)
(* C31.  Every settlement appends exactly one row to the ledger, so the    *)
(* ledger has as many rows as total_trades; the row carries the direction, *)
(* the entry price and the stake stored at entry, the exit price, the      *)
(* signed profit of the settlement and the balance right after it; rows    *)
(* already written are never changed.                                      *)
(***************************************************************************)
C31_LedgerRecordsEverySettlement ==
    /\ [](Len(ledger) = total_trades)
    /\ [][/\ total_trades' # total_trades =>
               /\ Len(ledger') = Len(ledger) + 1
               /\ LET row == ledger'[Len(ledger')]
                  IN  /\ row.tipo = position
                      /\ row.precio_entrada = entry_price
                      /\ row.stake = current_stake
                      /\ row.precio_salida = Head(recv_queue).price
                      /\ \A c \in TwoDecimals(row.ganancia) :
                            c * UnitsPerCent = balance' - balance
                      /\ \A c \in TwoDecimals(row.balance_final) :
                            c * UnitsPerCent = balance'
          /\ Len(ledger') >= Len(ledger)
          /\ \A i \in 1..Len(ledger) : ledger'[i] = ledger[i]]_vars

(***************************************************************************)
(* C32.  A tick frame the reader has pushed reaches the session exactly    *)
(* once: the queue never holds a frame twice; a tick enters the queue only *)
(* when the reader pushes it, as a new frame; it leaves the queue only     *)
(* when the event generator yields it to the session (or when the session  *)
(* ends and drops the queue); and a step of an order call leaves the ticks *)
(* of the queue as they are, also when it pops one with its last attempt.  *)
(***************************************************************************)
TickFrames(q) == {q[i] : i \in {j \in 1..Len(q) : Has("tick", q[j])}}

C32_TicksDeliveredOnce ==
    /\ [](\A i, j \in 1..Len(recv_queue) :
             recv_queue[i].id = recv_queue[j].id => i = j)
    /\ [][/\ \A f \in TickFrames(recv_queue') :
                \/ f \in TickFrames(recv_queue)
                \/ pushed' = pushed + 1 /\ f.id = pushed'
          /\ \A f \in TickFrames(recv_queue) :
                \/ f \in TickFrames(recv_queue')
                \/ Pulls /\ f = Head(recv_queue)
                \/ pc = "finally" /\ pc' = "ended"
          /\ (pc \in {"p1", "p2"} /\ pushed' = pushed) =>
                TickFrames(recv_queue') = TickFrames(recv_queue)]_vars

\* The only frames received are two ticks; the first started a buy call
\* that used up its ten iterations popping and requeuing the second, which
\* the session then received and on which it started another call.
C32_Witness ==
    /\ pushed = 2 /\ orders_sent = 2 /\ opened = 0 /\ pc = "p1"
    /\ tick.id = 2 /\ Has("tick", tick) /\ recv_queue = <<>>

(***************************************************************************)
(* C33.  While the reader task is running no other operation receives on   *)
(* the transport, a repeated authorize() included: no recv() is ever       *)
(* called while the reader is suspended in its own.                        *)
(***************************************************************************)
C33_NoConcurrentReceive == concurrent_recvs = 0

(***************************************************************************)
(* C34.  As claimed: in every state the buy calls that returned a contract *)
(* are total_trades, plus one if a position is held.                       *)
(***************************************************************************)
C34_OpenedIsTradesPlusHeld ==
    opened = total_trades + (IF position # "None" THEN 1 ELSE 0)

(***************************************************************************)
(* C34, as the session does it: the buy calls that returned a contract are *)
(* total_trades, plus one if a position is held that has not been settled. *)
(* A settled position is still stored only between its settlement and the  *)
(* reset that follows the notification of the closed trade, or for good if *)
(* that notification ended the session.  A position is settled at most     *)
(* once, and is cleared only once it has been settled.                     *)
(***************************************************************************)
HeldUnsettled == position # "None" /\ contract_id \notin settled_ids

C34_OpenedIsTradesPlusUnsettled ==
    /\ [](opened = total_trades + (IF HeldUnsettled THEN 1 ELSE 0))
    /\ []((position # "None" /\ ~ HeldUnsettled) =>
             (notifier /\ pc \in {"notify_closed", "finally", "ended"}))
    /\ [][/\ total_trades' # total_trades =>
               (HeldUnsettled /\ total_trades' = total_trades + 1 /\ ~ HeldUnsettled')
          /\ (position # "None" /\ position' = "None") =>
               contract_id \in settled_ids'
          /\ opened' # opened =>
               (position = "None" /\ HeldUnsettled' /\ opened' = opened + 1)]_vars

\* A position has been settled and is still stored while the notification
\* of the closed trade is awaited.
C34_Witness ==
    /\ pc = "notify_closed" /\ position # "None" /\ contract_id \in settled_ids
    /\ opened = 1 /\ total_trades = 1

(***************************************************************************)
(* C35.  In every state total_trades = winning_trades + losing_trades, and *)
(* none of the three counters ever decreases: a settlement adds one to     *)
(* total_trades and one to exactly one of the other two.                   *)
(***************************************************************************)
C35_CountersAddUp ==
    /\ [](total_trades = winning_trades + losing_trades)
    /\ [][/\ total_trades' >= total_trades
          /\ winning_trades' >= winning_trades
          /\ losing_trades' >= losing_trades
          /\ total_trades' # total_trades =>
                /\ total_trades' = total_trades + 1
                /\ (winning_trades' - winning_trades)
                      + (losing_trades' - losing_trades) = 1]_vars

\* A session has settled one winning and one losing trade.
C35_Witness ==
    total_trades = 2 /\ winning_trades = 1 /\ losing_trades = 1

(***************************************************************************)
(* C36.  The stake of a sized order is no greater than the balance at that *)
(* moment, so the balance after losing it is not below zero.               *)
(***************************************************************************)
C36_StakeWithinBalance ==
    pc = "sized" =>
        /\ order.stake * UnitsPerCent <= balance
        /\ BalanceAfter(balance, ProfitAmount(order.stake, 0 - 1, 1)) >= 0

(***************************************************************************)
(* C37.  Once the duration of the run has elapsed the session issues no    *)
(* order: a buy call is started only while less than DurationSeconds have  *)
(* passed since start_time, so the tick on which the session ends by       *)
(* expiry opens no position.                                               *)
(***************************************************************************)
C37_NoOrderAfterDuration ==
    [][/\ orders_sent' # orders_sent => now - start_time < DurationSeconds
       /\ (pc' = "finally" /\ pc # "finally"
             /\ now - start_time >= DurationSeconds) => opened' = opened]_vars

=============================================================================
